---- MODULE Spec2Model ----
(***************************************************************************)
(* JA3 fingerprinting of TLS ClientHello messages (src/python/ja3.py).     *)
(*                                                                         *)
(* Bytes are naturals 0..255, byte strings are sequences of bytes, and     *)
(* text strings are sequences of one-character strings, so that the        *)
(* decimal formatting, the "-" and "," joins and the comma count are       *)
(* computed and not assumed.                                               *)
(*                                                                         *)
(* Two specifications share the variables:                                 *)
(*   Spec      process_pcap run over one capture, step by step;            *)
(*   SpecUnit  single calls of parse_variable_array,                       *)
(*             convert_to_ja3_segment and getServerName.                   *)
(***************************************************************************)
EXTENDS Integers, Sequences, FiniteSets, TLC

VARIABLES
    pcap,                         \* process_pcap argument: the TLS records of the capture
    pos,                          \* number of records the loop at line 205 has consumed
    pc,                           \* position inside process_pcap
    results,                      \* process_pcap.results
    returned,                     \* value process_pcap returned to main, once it has
    exception,                    \* exception propagating out of process_pcap, or "none"
    client_handshake,             \* process_pcap.client_handshake
    ja3,                          \* process_pcap.ja3 (list of segments until joined)
    tmpJA3,                       \* process_pcap.tmpJA3
    servername,                   \* process_pcap.servername
    exts,                         \* process_extensions.exts
    elliptic_curve,               \* process_extensions.elliptic_curve
    elliptic_curve_point_format,  \* process_extensions.elliptic_curve_point_format
    serverName,                   \* process_extensions.serverName
    idx,                          \* entries of client_handshake.extensions consumed
    call,                         \* SpecUnit: function called last
    arg_buf,                      \* SpecUnit: its byte-string argument
    arg_width,                    \* SpecUnit: its width argument
    ret                           \* SpecUnit: its outcome

pcapVars == <<pcap, pos, pc, results, returned, exception, client_handshake, ja3,
              tmpJA3, servername, exts, elliptic_curve,
              elliptic_curve_point_format, serverName, idx>>
unitVars == <<call, arg_buf, arg_width, ret>>
vars == <<pcap, pos, pc, results, returned, exception, client_handshake, ja3,
          tmpJA3, servername, exts, elliptic_curve,
          elliptic_curve_point_format, serverName, idx,
          call, arg_buf, arg_width, ret>>

(***************************************************************************)
(* Bounds of the model.                                                    *)
(***************************************************************************)
MaxRecords == 3     \* records in a multi-record capture
MaxExts == 3        \* entries in an enumerated extension list
MaxCipherLen == 4   \* bytes in an enumerated cipher-suite array
MaxExtLen == 4      \* bytes in an enumerated extension body
MaxBufLen == 4      \* bytes in a buffer handed to a single call

(***************************************************************************)
(* Program constants.                                                      *)
(***************************************************************************)
TLS_HANDSHAKE == 22

GREASE_TABLE ==
    {2570, 6682, 10794, 14906, 19018, 23130, 27242, 31354,
     35466, 39578, 43690, 47802, 51914, 56026, 60138, 64250}

(***************************************************************************)
(* Python primitives the code relies on.                                   *)
(***************************************************************************)
Min(a, b) == IF a < b THEN a ELSE b

SeqsUpTo(S, n) == UNION {[1..k -> S] : k \in 0..n}

\* s[a:b] with 0 <= a <= b: out-of-range bounds are clamped, never an error
Slice(s, a, b) == SubSeq(s, a + 1, Min(b, Len(s)))

\* s[a:]
SliceFrom(s, a) == SubSeq(s, a + 1, Len(s))

\* struct.unpack of a big-endian unsigned integer of exactly Len(b) bytes
RECURSIVE BigEndian(_)
BigEndian(b) ==
    IF b = <<>> THEN 0
    ELSE 256 * BigEndian(SubSeq(b, 1, Len(b) - 1)) + b[Len(b)]

DigitChar == <<"0", "1", "2", "3", "4", "5", "6", "7", "8", "9">>

\* str(n) for a non-negative integer
RECURSIVE str(_)
str(n) ==
    IF n < 10 THEN <<DigitChar[n + 1]>>
    ELSE str(n \div 10) \o <<DigitChar[(n % 10) + 1]>>

\* sep.join(parts)
RECURSIVE join(_, _)
join(sep, parts) ==
    IF parts = <<>> THEN <<>>
    ELSE IF Len(parts) = 1 THEN parts[1]
    ELSE parts[1] \o sep \o join(sep, Tail(parts))

\* "-".join(str(x) for x in vals)
StrAll(vals) == [k \in 1..Len(vals) |-> str(vals[k])]

\* hashlib.md5(s.encode()).hexdigest(): the library hash is kept uninterpreted,
\* a value determined by the bytes hashed and by nothing else
Md5Hex(s) == <<"md5", s>>

(***************************************************************************)
(* parse_variable_array                                                    *)
(***************************************************************************)
\* struct.unpack raises struct.error when buf holds fewer than byte_len bytes
\* (for byte_len = 3 the zero padding makes the same requirement); the payload
\* is a slice, so a size beyond the end of buf shortens it silently
parse_variable_array(buf, byte_len) ==
    LET prefix == Slice(buf, 0, byte_len)
    IN  IF Len(prefix) # byte_len
        THEN [ok |-> FALSE, err |-> "struct.error", data |-> <<>>, consumed |-> 0]
        ELSE LET size == BigEndian(prefix)
             IN  [ok |-> TRUE, err |-> "none",
                  data |-> Slice(buf, byte_len, byte_len + size),
                  consumed |-> size + byte_len]

(***************************************************************************)
(* ntoh                                                                    *)
(***************************************************************************)
ntoh(buf) ==
    IF Len(buf) = 1 THEN [ok |-> TRUE, err |-> "none", value |-> buf[1]]
    ELSE IF Len(buf) = 2 THEN [ok |-> TRUE, err |-> "none", value |-> BigEndian(buf)]
    ELSE IF Len(buf) = 4 THEN [ok |-> TRUE, err |-> "none", value |-> BigEndian(buf)]
    ELSE [ok |-> FALSE, err |-> "ValueError", value |-> 0]

(***************************************************************************)
(* convert_to_ja3_segment                                                  *)
(***************************************************************************)
\* a filter that looks at the low byte only
InGreaseTable_LowByte(element) == (element % 256) \in {b % 256 : b \in GREASE_TABLE}

\* element in GREASE_TABLE (line 101), GREASE_TABLE.get(ext_val) (line 130)
InGreaseTable(element) == element \in GREASE_TABLE

\* the loop of lines 99-102 from offset i on, int_vals being the list so far
RECURSIVE SegmentLoop(_, _, _, _)
SegmentLoop(data, element_width, i, int_vals) ==
    IF i >= Len(data)
    THEN [ok |-> TRUE, err |-> "none", int_vals |-> int_vals]
    ELSE LET element == ntoh(Slice(data, i, i + element_width))
         IN  IF ~element.ok
             THEN [ok |-> FALSE, err |-> element.err, int_vals |-> int_vals]
             ELSE SegmentLoop(data, element_width, i + element_width,
                              IF InGreaseTable(element.value)
                              THEN int_vals
                              ELSE Append(int_vals, element.value))

\* the guard of line 94 left out
Misaligned_Never(data, element_width) == FALSE

\* len(data) % element_width (line 94)
Misaligned(data, element_width) == Len(data) % element_width # 0

\* outcome: ok, the exception kind, int_vals when the function ended, the string
convert_to_ja3_segment(data, element_width) ==
    IF Misaligned(data, element_width)
    THEN [ok |-> FALSE, err |-> "ValueError", int_vals |-> <<>>, value |-> <<>>]
    ELSE LET loop == SegmentLoop(data, element_width, 0, <<>>)
         IN  IF ~loop.ok
             THEN [ok |-> FALSE, err |-> loop.err, int_vals |-> loop.int_vals,
                   value |-> <<>>]
             ELSE [ok |-> TRUE, err |-> "none", int_vals |-> loop.int_vals,
                   value |-> join(<<"-">>, StrAll(loop.int_vals))]

(***************************************************************************)
(* getServerName                                                           *)
(***************************************************************************)
\* struct.unpack('!{n}s', rest) raises struct.error unless len(rest) == n
getServerName(data) ==
    LET datalen == ntoh(Slice(data, 1, 3))
        rest == SliceFrom(data, 3)
    IN  IF ~datalen.ok THEN [ok |-> FALSE, err |-> datalen.err, value |-> <<>>]
        ELSE IF Len(rest) # datalen.value
        THEN [ok |-> FALSE, err |-> "struct.error", value |-> <<>>]
        ELSE [ok |-> TRUE, err |-> "none", value |-> rest]

(***************************************************************************)
(* The capture.  dpkt (not part of this repository) has split the capture  *)
(* into TLS records and parsed each ClientHello before line 223 is         *)
(* reached; a record is modelled by what process_pcap reads of it:         *)
(*   type             record.type                                          *)
(*   handshake_type   record.data[0]                                       *)
(*   hello            the dpkt.ssl.TLSClientHello object: version, data    *)
(*                    (the body after version and random), and the         *)
(*                    extensions attribute, which may be missing           *)
(* dpkt parses the session id and the cipher suites out of data itself, so *)
(* in every object it delivers those two arrays are complete; the bodies   *)
(* of the extensions are opaque to it and arbitrary.                       *)
(***************************************************************************)
BE2(n) == <<n \div 256, n % 256>>

\* session id, cipher suites, then one compression method (null)
Body(sid, cs) == <<Len(sid)>> \o sid \o BE2(Len(cs)) \o cs \o <<1, 0>>

Hello(version, sid, cs, has_extensions, extensions) ==
    [version |-> version, data |-> Body(sid, cs),
     has_extensions |-> has_extensions, extensions |-> extensions]

Record(hello) == [type |-> 22, handshake_type |-> 1, hello |-> hello]

PlainCiphers == <<0, 47, 0, 53>>

ExampleDotCom == <<101, 120, 97, 109, 112, 108, 101, 46, 99, 111, 109>>

\* server_name body: list length, name type 0, name length, name
SniBody(name) == BE2(Len(name) + 3) \o <<0>> \o BE2(Len(name)) \o name

\* the ClientHello of the published vector 771,4865-4866-4867,0-23-65281,,
KnownHello ==
    Hello(771, <<>>, <<19, 1, 19, 2, 19, 3>>, TRUE,
          << <<0, SniBody(ExampleDotCom)>>, <<23, <<>> >>, <<65281, <<0>> >> >>)

\* extension entries (type, body) that lists are enumerated over
ExtEntries ==
    { <<0, SniBody(<<97>>)>>,          \* server_name "a"
      <<0, <<0, 3, 0, 0, 5>> >>,       \* server_name: name length 5, no name
      <<10, <<0, 2, 0, 23>> >>,        \* one curve
      <<10, <<0, 4, 10, 10, 0, 24>> >>,\* a GREASE curve and one curve
      <<10, <<0, 1, 23>> >>,           \* curves: odd length
      <<10, <<0, 4, 0, 29>> >>,        \* curves: 4 bytes declared, 2 present
      <<11, <<1, 0>> >>,               \* one point format
      <<11, <<2, 1, 2>> >>,            \* two point formats
      <<23, <<>> >>,                   \* extended_master_secret
      <<2570, <<>> >>,                 \* a GREASE extension
      <<65281, <<0>> >> }              \* renegotiation_info

CipherBytes == {0, 10, 47}
ExtBytes == {0, 1, 2, 23}
SessionIds == {<<>>, <<7>>}

\* every cipher-suite array up to MaxCipherLen bytes, extensions missing or empty
CipherHellos ==
    {Hello(771, sid, cs, has, <<>>) :
        sid \in SessionIds, cs \in SeqsUpTo(CipherBytes, MaxCipherLen),
        has \in BOOLEAN}

\* every list of up to MaxExts of the entries above
ListHellos ==
    {Hello(771, <<>>, PlainCiphers, TRUE, l) : l \in SeqsUpTo(ExtEntries, MaxExts)}

\* every body up to MaxExtLen bytes for each extension the code looks into
BodyHellos ==
    {Hello(771, <<>>, PlainCiphers, TRUE, << <<t, d>> >>) :
        t \in {0, 10, 11}, d \in SeqsUpTo(ExtBytes, MaxExtLen)}

\* the records multi-record captures are made of
BatchRecords ==
    { [type |-> 23, handshake_type |-> 1, hello |-> Hello(771, <<>>, <<>>, FALSE, <<>>)],
      [type |-> 22, handshake_type |-> 2, hello |-> Hello(771, <<>>, <<>>, FALSE, <<>>)],
      Record(Hello(769, <<7>>, PlainCiphers, FALSE, <<>>)),
      Record(Hello(771, <<>>, PlainCiphers, TRUE, <<>>)),
      Record(Hello(771, <<>>, PlainCiphers, TRUE, << <<23, <<>> >> >>)),
      Record(Hello(771, <<>>, PlainCiphers, TRUE,
                   << <<0, SniBody(<<97>>)>>, <<10, <<0, 2, 0, 23>> >>,
                      <<11, <<1, 0>> >> >>)),
      Record(Hello(771, <<>>, PlainCiphers, TRUE, << <<10, <<0, 1, 23>> >> >>)),
      Record(Hello(771, <<>>, PlainCiphers, TRUE, << <<10, <<0, 4, 0, 29>> >> >>)) }

Pcaps ==
    SeqsUpTo(BatchRecords, MaxRecords)
    \cup {<<Record(h)>> : h \in CipherHellos \cup ListHellos \cup BodyHellos}
    \cup {<<Record(KnownHello)>>}

(***************************************************************************)
(* process_extensions                                                      *)
(***************************************************************************)
\* an empty list in place of the three empty segments
NoExtensionsResult_Empty == <<>>

\* line 123: the three empty segments that keep the commas of the join
NoExtensionsResult == <<<<>>, <<>>, <<>>>>

\* the type recorded only for the extensions the loop does not look into
ExtsAfter_OthersOnly(exts_, ext_val) ==
    IF ~InGreaseTable(ext_val) /\ ext_val \notin {0, 10, 11}
    THEN Append(exts_, ext_val) ELSE exts_

\* lines 130-131
ExtsAfter(exts_, ext_val) ==
    IF ~InGreaseTable(ext_val) THEN Append(exts_, ext_val) ELSE exts_

\* lines 133-135 (element_width 2) and 137-139 (element_width 1)
ArraySegment(ext_data, byte_len, element_width) ==
    LET a == parse_variable_array(ext_data, byte_len)
    IN  IF ~a.ok THEN [ok |-> FALSE, err |-> a.err, value |-> <<>>]
        ELSE LET seg == convert_to_ja3_segment(a.data, element_width)
             IN  [ok |-> seg.ok, err |-> seg.err, value |-> seg.value]

\* lines 141-142
ServerNameOf(ext_data) ==
    LET a == parse_variable_array(ext_data, 2)
    IN  IF ~a.ok THEN [ok |-> FALSE, err |-> a.err, value |-> <<>>]
        ELSE getServerName(a.data)

\* elliptic_curve kept from the previous call
ExtLocalsInit_Stale ==
    [exts |-> <<>>, elliptic_curve |-> elliptic_curve,
     elliptic_curve_point_format |-> <<>>, serverName |-> <<>>]

\* lines 125-128
ExtLocalsInit ==
    [exts |-> <<>>, elliptic_curve |-> <<>>, elliptic_curve_point_format |-> <<>>,
     serverName |-> <<>>]

\* lines 146-149
ExtResults(exts_, curve, point_format) ==
    <<join(<<"-">>, StrAll(exts_)), curve, point_format>>

(***************************************************************************)
(* process_pcap                                                            *)
(***************************************************************************)
\* the second read started at the head of the buffer again
CipherSuites_NoAdvance(data) ==
    LET first == parse_variable_array(data, 1)
    IN  IF ~first.ok THEN first ELSE parse_variable_array(data, 2)

\* lines 224-225: skip the session id, then read the cipher suites
CipherSuites(data) ==
    LET first == parse_variable_array(data, 1)
    IN  IF ~first.ok THEN first
        ELSE parse_variable_array(SliceFrom(data, first.consumed), 2)

\* lines 224-229: ja3 = [str(version), cipher segment]
HeadSegments(hello) ==
    LET buf == CipherSuites(hello.data)
    IN  IF ~buf.ok THEN [ok |-> FALSE, err |-> buf.err, ja3 |-> <<>>]
        ELSE LET seg == convert_to_ja3_segment(buf.data, 2)
             IN  IF ~seg.ok THEN [ok |-> FALSE, err |-> seg.err, ja3 |-> <<>>]
                 ELSE [ok |-> TRUE, err |-> "none",
                       ja3 |-> <<str(hello.version), seg.value>>]

\* line 232
JoinSegments(segments) == join(<<",">>, segments)

Current == pcap[pos + 1]

\* lines 206-213: the record is not a handshake record or not a ClientHello
Filtered(record) == record.type # TLS_HANDSHAKE \/ record.handshake_type # 1

extVars == <<exts, elliptic_curve, elliptic_curve_point_format, serverName, idx>>

Init ==
    /\ pcap \in Pcaps
    /\ pos = 0
    /\ pc = "loop"
    /\ results = <<>>
    /\ returned = [set |-> FALSE, value |-> <<>>]
    /\ exception = "none"
    /\ client_handshake = Hello(771, <<>>, <<>>, FALSE, <<>>)
    /\ ja3 = <<>>
    /\ tmpJA3 = <<>>
    /\ servername = <<>>
    /\ exts = <<>>
    /\ elliptic_curve = <<>>
    /\ elliptic_curve_point_format = <<>>
    /\ serverName = <<>>
    /\ idx = 0
    /\ call = "idle"
    /\ arg_buf = <<>>
    /\ arg_width = 0
    /\ ret = [ok |-> TRUE]

\* lines 205-213: continue
SkipRecord ==
    /\ pc = "loop"
    /\ pos < Len(pcap)
    /\ Filtered(Current)
    /\ pos' = pos + 1
    /\ UNCHANGED <<pcap, pc, results, returned, exception, client_handshake, ja3,
                   tmpJA3, servername>>
    /\ UNCHANGED extVars
    /\ UNCHANGED unitVars

\* lines 223-229; an exception of a callee is not caught and leaves process_pcap
DecodeHead ==
    /\ pc = "loop"
    /\ pos < Len(pcap)
    /\ ~Filtered(Current)
    /\ LET head == HeadSegments(Current.hello)
       IN  /\ client_handshake' = Current.hello
           /\ ja3' = IF head.ok THEN head.ja3 ELSE ja3
           /\ exception' = head.err
           /\ pc' = IF head.ok THEN "process_extensions" ELSE "raised"
    /\ UNCHANGED <<pcap, pos, results, returned, tmpJA3, servername>>
    /\ UNCHANGED extVars
    /\ UNCHANGED unitVars

\* line 230 calls process_extensions: lines 121-128
EnterExtensions ==
    /\ pc = "process_extensions"
    /\ IF ~client_handshake.has_extensions
       THEN /\ tmpJA3' = NoExtensionsResult
            /\ servername' = <<>>
            /\ pc' = "assemble"
            /\ UNCHANGED extVars
       ELSE /\ exts' = ExtLocalsInit.exts
            /\ elliptic_curve' = ExtLocalsInit.elliptic_curve
            /\ elliptic_curve_point_format' = ExtLocalsInit.elliptic_curve_point_format
            /\ serverName' = ExtLocalsInit.serverName
            /\ idx' = 0
            /\ pc' = "ext"
            /\ UNCHANGED <<tmpJA3, servername>>
    /\ UNCHANGED <<pcap, pos, results, returned, exception, client_handshake, ja3>>
    /\ UNCHANGED unitVars

\* one iteration of the loop of lines 129-144
ExtStep ==
    /\ pc = "ext"
    /\ idx < Len(client_handshake.extensions)
    /\ LET ext_val == client_handshake.extensions[idx + 1][1]
           ext_data == client_handshake.extensions[idx + 1][2]
           out == IF ext_val = 10 THEN ArraySegment(ext_data, 2, 2)
                  ELSE IF ext_val = 11 THEN ArraySegment(ext_data, 1, 1)
                  ELSE IF ext_val = 0 THEN ServerNameOf(ext_data)
                  ELSE [ok |-> TRUE, err |-> "none", value |-> <<>>]
       IN  /\ exts' = ExtsAfter(exts, ext_val)
           /\ elliptic_curve' =
                 IF ext_val = 10 /\ out.ok THEN out.value ELSE elliptic_curve
           /\ elliptic_curve_point_format' =
                 IF ext_val = 11 /\ out.ok THEN out.value
                 ELSE elliptic_curve_point_format
           /\ serverName' = IF ext_val = 0 /\ out.ok THEN out.value ELSE serverName
           /\ exception' = out.err
           /\ pc' = IF out.ok THEN "ext" ELSE "raised"
    /\ idx' = idx + 1
    /\ UNCHANGED <<pcap, pos, results, returned, client_handshake, ja3, tmpJA3,
                   servername>>
    /\ UNCHANGED unitVars

\* lines 146-150, and the assignment of line 230
ExtReturn ==
    /\ pc = "ext"
    /\ idx = Len(client_handshake.extensions)
    /\ tmpJA3' = ExtResults(exts, elliptic_curve, elliptic_curve_point_format)
    /\ servername' = serverName
    /\ pc' = "assemble"
    /\ UNCHANGED <<pcap, pos, results, returned, exception, client_handshake, ja3>>
    /\ UNCHANGED extVars
    /\ UNCHANGED unitVars

\* lines 231-243; the flow metadata is reduced to the record's position
Emit ==
    /\ pc = "assemble"
    /\ ja3' = JoinSegments(ja3 \o tmpJA3)
    /\ results' = Append(results,
                         [ja3 |-> ja3', ja3_digest |-> Md5Hex(ja3'),
                          server_name |-> servername, timestamp |-> pos + 1])
    /\ pos' = pos + 1
    /\ pc' = "loop"
    /\ UNCHANGED <<pcap, returned, exception, client_handshake, tmpJA3, servername>>
    /\ UNCHANGED extVars
    /\ UNCHANGED unitVars

\* line 245
Return ==
    /\ pc = "loop"
    /\ pos = Len(pcap)
    /\ returned' = [set |-> TRUE, value |-> results]
    /\ pc' = "done"
    /\ UNCHANGED <<pcap, pos, results, exception, client_handshake, ja3, tmpJA3,
                   servername>>
    /\ UNCHANGED extVars
    /\ UNCHANGED unitVars

Next ==
    \/ SkipRecord
    \/ DecodeHead
    \/ EnterExtensions
    \/ ExtStep
    \/ ExtReturn
    \/ Emit
    \/ Return

Spec == Init /\ [][Next]_vars

(***************************************************************************)
(* Single calls of the helpers.                                            *)
(***************************************************************************)
PrefixBytes == {0, 1, 2, 10}
SegmentBytes == {0, 10, 26, 47, 53}

InitUnit ==
    /\ pcap = <<>>
    /\ pos = 0
    /\ pc = "unit"
    /\ results = <<>>
    /\ returned = [set |-> FALSE, value |-> <<>>]
    /\ exception = "none"
    /\ client_handshake = Hello(771, <<>>, <<>>, FALSE, <<>>)
    /\ ja3 = <<>>
    /\ tmpJA3 = <<>>
    /\ servername = <<>>
    /\ exts = <<>>
    /\ elliptic_curve = <<>>
    /\ elliptic_curve_point_format = <<>>
    /\ serverName = <<>>
    /\ idx = 0
    /\ call = "idle"
    /\ arg_buf = <<>>
    /\ arg_width = 0
    /\ ret = [ok |-> TRUE]

Call_parse_variable_array ==
    /\ call = "idle"
    /\ \E buf \in SeqsUpTo(PrefixBytes, MaxBufLen), byte_len \in 1..4 :
        /\ call' = "parse_variable_array"
        /\ arg_buf' = buf
        /\ arg_width' = byte_len
        /\ ret' = parse_variable_array(buf, byte_len)
        /\ UNCHANGED pcapVars

Call_convert_to_ja3_segment ==
    /\ call = "idle"
    /\ \E data \in SeqsUpTo(SegmentBytes, MaxBufLen), element_width \in {1, 2} :
        /\ call' = "convert_to_ja3_segment"
        /\ arg_buf' = data
        /\ arg_width' = element_width
        /\ ret' = convert_to_ja3_segment(data, element_width)
        /\ UNCHANGED pcapVars

Call_getServerName ==
    /\ call = "idle"
    /\ \E data \in SeqsUpTo(PrefixBytes, MaxBufLen) :
        /\ call' = "getServerName"
        /\ arg_buf' = data
        /\ arg_width' = 0
        /\ ret' = getServerName(data)
        /\ UNCHANGED pcapVars

\* the call is over; nothing of it is kept
CallDone ==
    /\ call # "idle"
    /\ call' = "idle"
    /\ arg_buf' = <<>>
    /\ arg_width' = 0
    /\ ret' = [ok |-> TRUE]
    /\ UNCHANGED pcapVars

NextUnit ==
    \/ Call_parse_variable_array
    \/ Call_convert_to_ja3_segment
    \/ Call_getServerName
    \/ CallDone

SpecUnit == InitUnit /\ [][NextUnit]_vars

(***************************************************************************)
(* Vocabulary of the properties, defined from the wire format and          *)
(* independently of the operators above.                                   *)
(***************************************************************************)
\* the 16 reserved values 0x?a?a: both bytes equal, low nibble 0xa
IsGrease(v) == v \in 0..65535 /\ v \div 256 = v % 256 /\ v % 16 = 10

NotGrease(v) == ~IsGrease(v)

\* the big-endian elements of data, element k taken from bytes (k-1)w+1 .. kw
Elements(data, w) ==
    [k \in 1..(Len(data) \div w) |-> BigEndian(SubSeq(data, (k - 1) * w + 1, k * w))]

Kept(data, w) == SelectSeq(Elements(data, w), NotGrease)

DigitValue(c) == CHOOSE d \in 0..9 : DigitChar[d + 1] = c

RECURSIVE ParseDec(_)
ParseDec(chars) ==
    IF Len(chars) = 1 THEN DigitValue(chars[1])
    ELSE 10 * ParseDec(SubSeq(chars, 1, Len(chars) - 1)) + DigitValue(chars[Len(chars)])

\* the pieces of s between occurrences of the character c
RECURSIVE SplitOn(_, _)
SplitOn(s, c) ==
    IF \A i \in 1..Len(s) : s[i] # c THEN <<s>>
    ELSE LET i == CHOOSE j \in 1..Len(s) :
                      s[j] = c /\ \A m \in 1..(j - 1) : s[m] # c
         IN  <<SubSeq(s, 1, i - 1)>> \o SplitOn(SubSeq(s, i + 1, Len(s)), c)

\* the numbers a segment lists
ParseSegment(s) ==
    IF s = <<>> THEN <<>>
    ELSE [k \in 1..Len(SplitOn(s, "-")) |-> ParseDec(SplitOn(s, "-")[k])]

\* the segment a list of numbers is written as
SegmentText(vals) == join(<<"-">>, StrAll(vals))

CountOf(s, c) == Cardinality({i \in 1..Len(s) : s[i] = c})

\* length prefix of w bytes at the head of buf, and what follows it
Declared(buf, w) == BigEndian(SubSeq(buf, 1, w))
Available(buf, w) == Len(buf) - w
Overflows(buf, w) == Len(buf) < w \/ Declared(buf, w) > Available(buf, w)
Prefixed(buf, w) == SubSeq(buf, w + 1, Min(w + Declared(buf, w), Len(buf)))

Types(l) == [k \in 1..Len(l) |-> l[k][1]]
Has(l, t) == \E k \in 1..Len(l) : l[k][1] = t
Last(l, t) == CHOOSE k \in 1..Len(l) : l[k][1] = t /\ \A m \in (k + 1)..Len(l) : l[m][1] # t

ExpectedCodes(l) == SegmentText(SelectSeq(Types(l), NotGrease))
ExpectedCurves(l) ==
    IF Has(l, 10) THEN SegmentText(Kept(Prefixed(l[Last(l, 10)][2], 2), 2)) ELSE <<>>
ExpectedPointFormats(l) ==
    IF Has(l, 11) THEN SegmentText(Kept(Prefixed(l[Last(l, 11)][2], 1), 1)) ELSE <<>>

SourceOf(r) == pcap[r.timestamp]

\* a server_name body: list length, name type, 2-byte name length, the name
SniWellFormed(d) ==
    /\ Len(d) >= 2
    /\ Len(Prefixed(d, 2)) >= 3
    /\ BigEndian(SubSeq(Prefixed(d, 2), 2, 3)) = Len(Prefixed(d, 2)) - 3

SniName(d) == SubSeq(Prefixed(d, 2), 4, Len(Prefixed(d, 2)))

\* the published fingerprint string of KnownHello
KnownJa3 ==
    <<"7", "7", "1", ",",
      "4", "8", "6", "5", "-", "4", "8", "6", "6", "-", "4", "8", "6", "7", ",",
      "0", "-", "2", "3", "-", "6", "5", "2", "8", "1", ",", ",">>

SessionEnd(d) == 1 + Declared(d, 1)

CipherArray(d) == Prefixed(SubSeq(d, SessionEnd(d) + 1, Len(d)), 2)

BodyComplete(d) ==
    /\ ~Overflows(d, 1)
    /\ ~Overflows(SubSeq(d, SessionEnd(d) + 1, Len(d)), 2)

ExpectedSegments(h) ==
    <<str(h.version), SegmentText(Kept(CipherArray(h.data), 2))>>
    \o (IF h.has_extensions
        THEN <<ExpectedCodes(h.extensions), ExpectedCurves(h.extensions),
               ExpectedPointFormats(h.extensions)>>
        ELSE <<<<>>, <<>>, <<>>>>)

(***************************************************************************)
(* C1: a parsing error raised while one ClientHello is decoded drops that  *)
(* record only and batch processing continues: no exception of a decode    *)
(* step leaves process_pcap, which after such an error is still in its     *)
(* loop or has returned its results.                                       *)
(***************************************************************************)
C1_DecodeErrorDropsOneRecord ==
    /\ pc # "raised"
    /\ exception # "none" => pc \in {"loop", "done"}

(***************************************************************************)
(* C2: parse_variable_array fails whenever buf is shorter than             *)
(* prefixWidth + L; on success the payload is buf[prefixWidth :            *)
(* prefixWidth + L], of length L, and consumed = prefixWidth + L is at     *)
(* most len(buf).                                                          *)
(***************************************************************************)
C2_TruncatedBufferRejected ==
    call = "parse_variable_array" =>
        IF Overflows(arg_buf, arg_width)
        THEN ~ret.ok
        ELSE /\ ret.ok
             /\ Len(ret.data) = Declared(arg_buf, arg_width)
             /\ ret.data = SubSeq(arg_buf, arg_width + 1,
                                  arg_width + Declared(arg_buf, arg_width))
             /\ ret.consumed = arg_width + Declared(arg_buf, arg_width)
             /\ ret.consumed <= Len(arg_buf)

(***************************************************************************)
(* C3: a fingerprint is emitted only for a ClientHello in which the        *)
(* session-id, cipher-suite, curve and point-format arrays are each fully  *)
(* contained within their declared length; a length prefix declaring more  *)
(* bytes than are available never yields an emitted fingerprint.           *)
(***************************************************************************)
C3_NoPartialFingerprint ==
    \A n \in 1..Len(results) :
        LET h == SourceOf(results[n]).hello
            l == h.extensions
        IN  /\ ~Overflows(h.data, 1)
            /\ ~Overflows(SubSeq(h.data, 2 + Declared(h.data, 1), Len(h.data)), 2)
            /\ h.has_extensions =>
                  \A k \in 1..Len(l) :
                      /\ l[k][1] = 10 => ~Overflows(l[k][2], 2)
                      /\ l[k][1] = 11 => ~Overflows(l[k][2], 1)

(***************************************************************************)
(* C4: every ja3 string emitted contains exactly 4 commas, whether the     *)
(* ClientHello has extensions, an empty extension list or no extensions    *)
(* attribute at all.                                                       *)
(***************************************************************************)
C4_FourCommas ==
    \A n \in 1..Len(results) : CountOf(results[n].ja3, ",") = 4

C4_Witness ==
    /\ pc = "done"
    /\ Len(results) = 3
    /\ ~SourceOf(results[1]).hello.has_extensions
    /\ SourceOf(results[2]).hello.has_extensions
    /\ SourceOf(results[2]).hello.extensions = <<>>
    /\ SourceOf(results[3]).hello.has_extensions
    /\ SourceOf(results[3]).hello.extensions # <<>>
    /\ CountOf(results[1].ja3, ",") = 4

(***************************************************************************)
(* C5: for data whose length is a multiple of elementWidth,                *)
(* convert_to_ja3_segment returns the decimal representations, joined by   *)
(* "-", of the big-endian elements that are not GREASE values, in order;   *)
(* reading the segment back gives exactly those elements.  00 2f 00 35     *)
(* gives "47-53" and 0a 0a gives the empty string.                         *)
(***************************************************************************)
C5_SegmentIsFilteredDecimals ==
    (call = "convert_to_ja3_segment" /\ Len(arg_buf) % arg_width = 0) =>
        /\ ret.ok
        /\ ret.value = SegmentText(Kept(arg_buf, arg_width))
        /\ ParseSegment(ret.value) = Kept(arg_buf, arg_width)
        /\ (arg_buf = <<0, 47, 0, 53>> /\ arg_width = 2) =>
              ret.value = <<"4", "7", "-", "5", "3">>
        /\ (arg_buf = <<10, 10>> /\ arg_width = 2) => ret.value = <<>>

C5_Witness ==
    /\ call = "convert_to_ja3_segment"
    /\ arg_buf = <<0, 47, 10, 10>>
    /\ arg_width = 2
    /\ ret.ok
    /\ ret.value = <<"4", "7">>

(***************************************************************************)
(* C6: convert_to_ja3_segment fails with ValueError and returns no string  *)
(* whenever len(data) is not a multiple of elementWidth, before any        *)
(* element is encoded.                                                     *)
(***************************************************************************)
C6_MisalignedRejected ==
    (call = "convert_to_ja3_segment" /\ Len(arg_buf) % arg_width # 0) =>
        /\ ~ret.ok
        /\ ret.err = "ValueError"
        /\ ret.value = <<>>
        /\ ret.int_vals = <<>>

C6_Witness ==
    /\ call = "convert_to_ja3_segment"
    /\ arg_buf = <<0, 47, 0>>
    /\ arg_width = 2
    /\ ~ret.ok

(***************************************************************************)
(* C7: whenever process_extensions returns, every server_name extension    *)
(* held, after its 2-byte list length, a 1-byte name type and a 2-byte     *)
(* name length equal to the number of bytes that follow them, and the      *)
(* server name returned is exactly those bytes; any other server_name      *)
(* body makes the decode fail.                                             *)
(***************************************************************************)
C7_ServerNameExactOrError ==
    (pc = "assemble" /\ client_handshake.has_extensions) =>
        LET l == client_handshake.extensions
        IN  /\ \A k \in 1..Len(l) : l[k][1] = 0 => SniWellFormed(l[k][2])
            /\ Has(l, 0) => servername = SniName(l[Last(l, 0)][2])

(***************************************************************************)
(* C8: two records of one capture that carry identical ClientHello bytes   *)
(* yield identical ja3 and ja3_digest, whatever was decoded before or      *)
(* between them.                                                           *)
(***************************************************************************)
C8_SameBytesSameFingerprint ==
    \A m, n \in 1..Len(results) :
        SourceOf(results[m]) = SourceOf(results[n]) =>
            /\ results[m].ja3 = results[n].ja3
            /\ results[m].ja3_digest = results[n].ja3_digest

C8_Witness ==
    /\ pc = "done"
    /\ Len(results) = 3
    /\ pcap[1] = pcap[3]
    /\ pcap[2] # pcap[1]
    /\ Has(pcap[1].hello.extensions, 23)
    /\ Has(pcap[2].hello.extensions, 10)
    /\ results[1].ja3 = results[3].ja3
    /\ results[2].ja3 # results[1].ja3

(***************************************************************************)
(* C9: for a ClientHello body whose session id and cipher suites are       *)
(* complete, the cipher segment encodes exactly the 2-byte-prefixed array  *)
(* that starts where the 1-byte-prefixed session id ends, and the ja3      *)
(* string is version, ciphers, extension codes, curves and point formats   *)
(* joined by commas in that order; the known ClientHello gives             *)
(* 771,4865-4866-4867,0-23-65281,,                                         *)
(***************************************************************************)
C9_ChainedReadsFixedOrder ==
    \A n \in 1..Len(results) :
        LET h == SourceOf(results[n]).hello
        IN  /\ BodyComplete(h.data) =>
                  SplitOn(results[n].ja3, ",") = ExpectedSegments(h)
            /\ h = KnownHello => results[n].ja3 = KnownJa3

C9_Witness ==
    /\ pc = "done"
    /\ pcap = <<Record(KnownHello)>>
    /\ Len(returned.value) = 1
    /\ returned.value[1].ja3 = KnownJa3
    /\ returned.value[1].server_name = ExampleDotCom

(***************************************************************************)
(* C10: when process_extensions returns for an extension list, the codes   *)
(* segment lists, in declared order, the type of every entry that is not   *)
(* a GREASE value (0x00, 0x0a, 0x0b and repeated types included), the      *)
(* curves segment is the width-2 encoding of the 2-byte-prefixed payload   *)
(* of the last type-0x0a entry, the point-formats segment the width-1      *)
(* encoding of the 1-byte-prefixed payload of the last type-0x0b entry,    *)
(* and each of the two is empty when there is no such entry.               *)
(***************************************************************************)
C10_ExtensionSegments ==
    (pc = "assemble" /\ client_handshake.has_extensions) =>
        LET l == client_handshake.extensions
        IN  /\ tmpJA3[1] = ExpectedCodes(l)
            /\ ParseSegment(tmpJA3[1]) = SelectSeq(Types(l), NotGrease)
            /\ tmpJA3[2] = ExpectedCurves(l)
            /\ tmpJA3[3] = ExpectedPointFormats(l)

C10_Witness ==
    /\ pc = "assemble"
    /\ client_handshake.has_extensions
    /\ client_handshake.extensions =
          << <<10, <<0, 2, 0, 23>> >>, <<2570, <<>> >>,
             <<10, <<0, 4, 10, 10, 0, 24>> >> >>
    /\ tmpJA3 = << <<"1", "0", "-", "1", "0">>, <<"2", "4">>, <<>> >>

====
